---- MODULE Spec2Model ----
(***************************************************************************)
(* DevEx Scorecard Generator: the webhook handler, the event routing and   *)
(* the issue reconciler (IssueManagerService), modelled against one        *)
(* repository's issue tracker.                                             *)
(*                                                                         *)
(* Text (issue titles, issue bodies) is a sequence of tokens; a JavaScript *)
(* String.includes is a contiguous-subsequence search over the tokens.     *)
(* Every await that reaches the network is one step of a process.          *)
(* The GitHub App credentials are taken to be readable, so that            *)
(* getInstallationOctokit and getOctokit yield a client.                   *)
(***************************************************************************)
EXTENDS Integers, Sequences, FiniteSets, TLC

VARIABLES
    env,        \* the process environment read at start-up (NODE_ENV, WEBHOOK_SECRET)
    config,     \* the process-wide configuration singleton built from env
    issues,     \* the repository's issue tracker: issue number -> issue
    procs,      \* one record per request or service call in progress
    hist,       \* what the previous reconciliation call was (history variable)
    calc        \* the last call of a pure function: its arguments and its result

vars == <<env, config, issues, procs, hist, calc>>

----------------------------------------------------------------------------
(* Bounds of the model *)

MaxIssues == 2      \* issues the tracker may hold
MaxComments == 1    \* comments counted per issue
MaxAdded == 2       \* longest repositories_added list of an event

Procs == {"p1"}

----------------------------------------------------------------------------
(* Text *)

Includes(hay, needle) ==
    \E i \in 1..(Len(hay) - Len(needle) + 1) :
        SubSeq(hay, i, i + Len(needle) - 1) = needle

TitleNeedle == <<"DevEx Scorecard">>
ScorecardTitle == <<"(dart) ", "DevEx Scorecard">>
MentionTitle == <<"Re: ", "DevEx Scorecard", " feedback">>
OtherTitle == <<"Regular issue">>

ScorecardLabels == {"devex-scorecard", "documentation"}

RerunNeedle == <<"- [", "x", "] **Re-run ", "scorecard", "**">>

\* The static template. Its criteria checkboxes ("- [ ] README ...") are left
\* out: none of them can hold the re-run control.
DEVEX_SCORECARD_TEMPLATE ==
    << "# DevEx Scorecard",
       "## Scorecard Criteria",
       "## Actions",
       "- [", " ", "] **Re-run ", "scorecard", "**",
       " - Check this box to trigger a fresh analysis" >>

----------------------------------------------------------------------------
(* Scoring model (ScoringConfigService) *)

DEFAULT_SCORING_CONFIG ==
    [ greenThreshold |-> 70, yellowThreshold |-> 50, redThreshold |-> 0,
      defaultScore |-> 50,
      ranges |-> [ excellent |-> [min |-> 90, max |-> 100],
                   veryGood |-> [min |-> 80, max |-> 89],
                   good |-> [min |-> 70, max |-> 79],
                   moderate |-> [min |-> 60, max |-> 69],
                   belowAverage |-> [min |-> 50, max |-> 59],
                   poor |-> [min |-> 40, max |-> 49],
                   veryPoor |-> [min |-> 0, max |-> 39] ] ]

\* An optional value is a sequence: <<>> when absent (undefined), <<v>> when
\* given.
\* the key order of DEFAULT_SCORING_CONFIG.ranges, which Object.entries follows
BandOrder ==
    << "excellent", "veryGood", "good", "moderate", "belowAverage", "poor",
       "veryPoor" >>

\* a ?? b
Nullish(a, b) == IF a = <<>> THEN b ELSE a[1]

\* mergeConfig: customConfig is <<>> or <<c>>; c.ranges is <<>> or <<r>> with r
\* a function from some band names to bands
mergeConfig(defaultConfig, customConfig) ==
    IF customConfig = <<>> THEN defaultConfig
    ELSE LET c == customConfig[1] IN
         [ greenThreshold |-> Nullish(c.greenThreshold, defaultConfig.greenThreshold),
           yellowThreshold |-> Nullish(c.yellowThreshold, defaultConfig.yellowThreshold),
           redThreshold |-> Nullish(c.redThreshold, defaultConfig.redThreshold),
           defaultScore |-> Nullish(c.defaultScore, defaultConfig.defaultScore),
           ranges |->
               IF c.ranges = <<>> THEN defaultConfig.ranges
               ELSE [ b \in DOMAIN defaultConfig.ranges |->
                        IF b \in DOMAIN c.ranges[1] THEN c.ranges[1][b]
                        ELSE defaultConfig.ranges[b] ] ]

invalidRange(range) == range.min < 0 \/ range.max > 100 \/ range.min > range.max

\* validateConfig without the check of the default score
validateConfig_NoDefaultScoreCheck(cfg) ==
    IF cfg.greenThreshold <= cfg.yellowThreshold
    THEN <<"Green threshold must be greater than yellow threshold">>
    ELSE IF cfg.yellowThreshold <= cfg.redThreshold
    THEN <<"Yellow threshold must be greater than red threshold">>
    ELSE LET bad == SelectSeq(BandOrder, LAMBDA b : invalidRange(cfg.ranges[b]))
         IN  IF bad # <<>> THEN <<"Invalid range for ", Head(bad)>> ELSE <<>>

\* validateConfig: the message of the error it throws, <<>> when it returns
validateConfig(cfg) ==
    IF cfg.greenThreshold <= cfg.yellowThreshold
    THEN <<"Green threshold must be greater than yellow threshold">>
    ELSE IF cfg.yellowThreshold <= cfg.redThreshold
    THEN <<"Yellow threshold must be greater than red threshold">>
    ELSE IF cfg.defaultScore < 0 \/ cfg.defaultScore > 100
    THEN <<"Default score must be between 0 and 100">>
    ELSE LET bad == SelectSeq(BandOrder, LAMBDA b : invalidRange(cfg.ranges[b]))
         IN  IF bad # <<>> THEN <<"Invalid range for ", Head(bad)>> ELSE <<>>

\* new ScoringConfigService(customConfig): the error thrown, or the service's
\* configuration
ScoringConfigService(customConfig) ==
    LET merged == mergeConfig(DEFAULT_SCORING_CONFIG, customConfig)
    IN  [ error |-> validateConfig(merged), config |-> merged ]

\* getScoreColor with the yellow threshold tested first
getScoreColor_YellowFirst(cfg, score) ==
    IF score >= cfg.yellowThreshold THEN "yellow"
    ELSE IF score >= cfg.greenThreshold THEN "green"
    ELSE "red"

getScoreColor(cfg, score) ==
    IF score >= cfg.greenThreshold THEN "green"
    ELSE IF score >= cfg.yellowThreshold THEN "yellow"
    ELSE "red"

getDefaultScore(cfg) == cfg.defaultScore

getScoreCategory(cfg, score) ==
    IF score >= cfg.ranges.excellent.min THEN "Excellent"
    ELSE IF score >= cfg.ranges.veryGood.min THEN "Very Good"
    ELSE IF score >= cfg.ranges.good.min THEN "Good"
    ELSE IF score >= cfg.ranges.moderate.min THEN "Moderate"
    ELSE IF score >= cfg.ranges.belowAverage.min THEN "Below Average"
    ELSE IF score >= cfg.ranges.poor.min THEN "Poor"
    ELSE "Needs Improvement"

----------------------------------------------------------------------------
(* The response parser (AIResponseParserService) *)

\* A JavaScript string is a sequence of characters (or longer fragments); " "
\* stands for any white space.
RECURSIVE trimStart(_)
trimStart(str) ==
    IF str # <<>> /\ Head(str) = " " THEN trimStart(Tail(str)) ELSE str

RECURSIVE trimEnd(_)
trimEnd(str) ==
    IF str # <<>> /\ str[Len(str)] = " "
    THEN trimEnd(SubSeq(str, 1, Len(str) - 1)) ELSE str

trim(str) == trimEnd(trimStart(str))

Digits == {"0", "1", "2", "3", "4", "5", "6", "7", "8", "9"}

digitValue(ch) ==
    CASE ch = "0" -> 0 [] ch = "1" -> 1 [] ch = "2" -> 2 [] ch = "3" -> 3
      [] ch = "4" -> 4 [] ch = "5" -> 5 [] ch = "6" -> 6 [] ch = "7" -> 7
      [] ch = "8" -> 8 [] ch = "9" -> 9

\* the value of the longest prefix of digits, read after the digits acc
RECURSIVE digitsPrefix(_, _)
digitsPrefix(str, acc) ==
    IF str # <<>> /\ Head(str) \in Digits
    THEN digitsPrefix(Tail(str), acc * 10 + digitValue(Head(str)))
    ELSE acc

\* parseInt(str, 10): <<>> is NaN, <<n>> a number
parseInt(str) ==
    LET t == trimStart(str)
        signed == t # <<>> /\ Head(t) \in {"-", "+"}
        body == IF signed THEN Tail(t) ELSE t
    IN  IF body = <<>> \/ Head(body) \notin Digits THEN <<>>
        ELSE IF signed /\ Head(t) = "-" THEN << 0 - digitsPrefix(body, 0) >>
        ELSE << digitsPrefix(body, 0) >>

Min(a, b) == IF a < b THEN a ELSE b
Max(a, b) == IF a > b THEN a ELSE b

\* A JavaScript number is [n, f, inf]: n its whole part (the floor), f its
\* first decimal (0..9), inf whether it is Infinity. A value of a JSON member
\* is [t, n, f, s]: t its type ("absent" when the member is missing, "number"
\* for a finite number, "Infinity" for a number too large for a double), n and
\* f the number, s the string.
Number(n, f) == [n |-> n, f |-> f, inf |-> FALSE]

\* typeof score === 'number' ? score : parseInt(String(score), 10); <<>> is
\* NaN. String(score) of a value that is neither a number nor a string
\* (undefined, null, true) has no leading digits.
numScore(score) ==
    IF score.t = "number" THEN <<Number(score.n, score.f)>>
    ELSE IF score.t = "Infinity" THEN <<[n |-> 0, f |-> 0, inf |-> TRUE]>>
    ELSE IF score.t = "string"
    THEN LET k == parseInt(score.s) IN IF k = <<>> THEN <<>> ELSE <<Number(k[1], 0)>>
    ELSE <<>>

\* Math.max(0, Math.min(100, x))
clamp(x) ==
    IF x.inf \/ x.n >= 100 THEN Number(100, 0)
    ELSE IF x.n < 0 THEN Number(0, 0)
    ELSE x

\* validateScore without the clamp
validateScore_Unclamped(cfg, score) ==
    IF numScore(score) = <<>> THEN Number(getDefaultScore(cfg), 0)
    ELSE numScore(score)[1]

validateScore(cfg, score) ==
    IF numScore(score) = <<>> THEN Number(getDefaultScore(cfg), 0)
    ELSE clamp(numScore(score)[1])

\* determineColor that ignores the colour provided
determineColor_AlwaysDerived(cfg, score, providedColor) ==
    getScoreColor(cfg, score)

determineColor(cfg, score, providedColor) ==
    IF providedColor.t = "string" /\ providedColor.s \in {"red", "yellow", "green"}
    THEN providedColor.s
    ELSE getScoreColor(cfg, score)

NoAnalysisText == <<"No detailed analysis provided by the AI service.">>

validateAnalysis(analysis) ==
    IF analysis.t = "string" /\ Len(trim(analysis.s)) > 0
    THEN trim(analysis.s)
    ELSE NoAnalysisText

FallbackRecommendation == <<"Review repository documentation and structure">>

\* recommendations is [t, a]: a the elements when t = "array", each [t, s]
validateRecommendations(recommendations) ==
    LET valid == IF recommendations.t = "array"
                 THEN SelectSeq(recommendations.a,
                                LAMBDA rec : rec.t = "string" /\ Len(trim(rec.s)) > 0)
                 ELSE <<>>
    IN  IF Len(valid) > 0
        THEN [i \in 1..Len(valid) |-> trim(valid[i].s)]
        ELSE <<FallbackRecommendation>>

\* The result holds the score as score (whole part) and scoreFrac (first
\* decimal). The thresholds are integers, so a score compares with them as its
\* whole part does.
validateAndNormalizeScorecardResult(cfg, parsed) ==
    LET score == validateScore(cfg, parsed.score) IN
    [ score |-> score.n, scoreFrac |-> score.f,
      color |-> determineColor(cfg, score.n, parsed.color),
      analysis |-> validateAnalysis(parsed.analysis),
      recommendations |-> validateRecommendations(parsed.recommendations) ]

\* A response is a sequence of pieces [t, s, members]: text ("text"), an
\* opening or closing brace ("{", "}"), or the members of a JSON object
\* ("members")
Text(str) == [t |-> "text", s |-> str, members |-> <<>>]
Brace(b) == [t |-> b, s |-> b, members |-> <<>>]
Members(obj) == [t |-> "members", s |-> "", members |-> <<obj>>]

FailedAnalysisText == <<Text("AI analysis failed to provide a structured response.")>>

\* response || '...' in createFallbackResult: the empty string is falsy
createFallbackResult(cfg, response) ==
    [ score |-> getDefaultScore(cfg), scoreFrac |-> 0,
      color |-> getScoreColor(cfg, getDefaultScore(cfg)),
      analysis |-> IF response = <<>> THEN FailedAnalysisText ELSE response,
      recommendations |-> <<FallbackRecommendation>> ]

\* response.match(/\{[\s\S]*\}/): from the first "{" to the last "}", <<>>
\* when there is no such span
jsonMatch(response) ==
    LET opens == {i \in 1..Len(response) : response[i].t = "{"}
        closes == {i \in 1..Len(response) : response[i].t = "}"}
        first == CHOOSE i \in opens : \A j \in opens : i <= j
        last == CHOOSE i \in closes : \A j \in closes : i >= j
    IN  IF opens = {} \/ closes = {} THEN <<>>
        ELSE IF first < last THEN SubSeq(response, first, last) ELSE <<>>

AbsentValue == [t |-> "absent", n |-> 0, f |-> 0, s |-> <<>>]
EmptyObject ==
    [ score |-> AbsentValue, color |-> [t |-> "absent", s |-> ""],
      analysis |-> [t |-> "absent", s |-> <<>>],
      recommendations |-> [t |-> "absent", a |-> <<>>] ]

\* JSON.parse of the span: <<>> when it throws, <<object>> otherwise
JSONparse(span) ==
    IF Len(span) = 2 THEN <<EmptyObject>>
    ELSE IF Len(span) = 3 /\ span[2].t = "members" THEN span[2].members
    ELSE <<>>

parseAIResponse(cfg, response) ==
    LET match == jsonMatch(response)
        parsed == IF match = <<>> THEN <<>> ELSE JSONparse(match)
    IN  IF parsed # <<>>
        THEN validateAndNormalizeScorecardResult(cfg, parsed[1])
        ELSE createFallbackResult(cfg, response)

----------------------------------------------------------------------------
(* The assessment generator's results and the AI issue body *)

\* ScorecardResults the generator may return (already normalized by the
\* parser). The analysis is the model's text; the second one quotes a checklist
\* line of the repository it describes.
GenResults ==
    { [ score |-> 85, color |-> "green",
        analysis |-> <<"The repository is well documented.">>,
        recommendations |-> << <<"Add a CONTRIBUTING guide">>, <<"Add CI">> >> ],
      [ score |-> 40, color |-> "red",
        analysis |-> <<"The issue template of the repository reads: ">>
                     \o RerunNeedle,
        recommendations |-> << <<"Add CI">> >> ] }

colorEmoji(color) ==
    CASE color = "red" -> "(red circle)"
      [] color = "yellow" -> "(yellow circle)"
      [] color = "green" -> "(green circle)"

RECURSIVE formatRecommendationsWithLinks(_, _)
formatRecommendationsWithLinks(recommendations, index) ==
    IF recommendations = <<>> THEN <<>>
    ELSE <<ToString(index + 1), ". ">> \o Head(recommendations)
         \o formatRecommendationsWithLinks(Tail(recommendations), index + 1)

generateAIScorecardTemplate(result) ==
    << "# DevEx Scorecard",
       "## Overall Score: ", ToString(result.score), "/100 ", colorEmoji(result.color),
       "**Category:** ", getScoreCategory(DEFAULT_SCORING_CONFIG, result.score),
       "## AI Analysis" >>
    \o result.analysis
    \o << "## Recommendations" >>
    \o formatRecommendationsWithLinks(result.recommendations, 0)
    \o << "## Actions",
          "- [", " ", "] **Re-run ", "AI analysis", "**",
          " - Check this box to trigger a fresh AI-powered analysis",
          "_Last updated: ", "(now)", "_" >>

----------------------------------------------------------------------------
(* The issue tracker of the repository *)

NewIssue(title, labels, body) ==
    [ title |-> title, labels |-> labels, state |-> "open", body |-> body,
      comments |-> 0 ]

\* issues.listForRepo({state: 'all', labels: 'devex-scorecard'}): the numbers of
\* the issues carrying the label, newest first (the tracker's default order).
listForRepo(iss) ==
    LET newestFirst == [i \in 1..Len(iss) |-> Len(iss) + 1 - i]
    IN  SelectSeq(newestFirst, LAMBDA n : "devex-scorecard" \in iss[n].labels)

titleMatches(title) ==
    Includes(title, TitleNeedle) \/ Includes(title, ScorecardTitle)

\* issues.data.find(...) || null ; 0 stands for null
findFirst(listed, iss) ==
    LET hits == SelectSeq(listed, LAMBDA n : titleMatches(iss[n].title))
    IN  IF hits = <<>> THEN 0 ELSE Head(hits)

\* a lookup that answers from the tracker even when the listing failed
findExistingScorecardIssue_NoCatch(iss, listOk) ==
    findFirst(listForRepo(iss), iss)

\* findExistingScorecardIssue: a failing listing is caught and yields null
findExistingScorecardIssue(iss, listOk) ==
    IF listOk THEN findFirst(listForRepo(iss), iss) ELSE 0

Tracked(iss) ==
    { n \in 1..Len(iss) :
        "devex-scorecard" \in iss[n].labels /\ titleMatches(iss[n].title) }

----------------------------------------------------------------------------
(* Configuration and signature verification *)

DefaultSecret == "test-secret-for-development"

\* NODE_ENV, WEBHOOK_SECRET and the Azure AI settings as the deployment sets
\* them; "" is unset
Environments ==
    [ NODE_ENV : {"production", ""}, WEBHOOK_SECRET : {"", "s3cret"},
      AZURE_AI_PROJECT_ENDPOINT : {""}, AZURE_AI_DEPLOYMENT_NAME : {""} ]
    \cup
    [ NODE_ENV : {"production"}, WEBHOOK_SECRET : {"s3cret"},
      AZURE_AI_PROJECT_ENDPOINT : {"https://ai.example"},
      AZURE_AI_DEPLOYMENT_NAME : {"", "gpt"} ]

\* azure: TRUE when the configuration carries an AgentConfig
getConfig(e) ==
    [ nodeEnv |-> IF e.NODE_ENV = "" THEN "development" ELSE e.NODE_ENV,
      webhookSecret |->
          IF e.WEBHOOK_SECRET = "" THEN DefaultSecret ELSE e.WEBHOOK_SECRET,
      azure |-> e.AZURE_AI_PROJECT_ENDPOINT # "" /\ e.AZURE_AI_DEPLOYMENT_NAME # "" ]

isWebhookSecretConfigured(cfg) == cfg.webhookSecret # ""

\* TRUE when validateProductionConfig throws
validateProductionConfigThrows(cfg) ==
    ~isWebhookSecretConfigured(cfg) /\ cfg.nodeEnv = "production"

\* The x-hub-signature-256 header: absent, not of the form sha256=<hex>, or the
\* HMAC-SHA256 under some key of some message ("this" request body or another).
NoSignature == [kind |-> "none", key |-> "", msg |-> ""]
Signatures ==
    { NoSignature, [kind |-> "malformed", key |-> "", msg |-> ""] }
    \cup [ kind : {"hmac"}, key : {"s3cret", DefaultSecret}, msg : {"this", "other"} ]

\* webhooks.verify recomputes the HMAC of the payload under the configured
\* secret; an error it raises is caught and reported as false
verifySignature(cfg, signature) ==
    IF signature.kind # "hmac" THEN FALSE
    ELSE signature.key = cfg.webhookSecret /\ signature.msg = "this"

----------------------------------------------------------------------------
(* Webhook payloads and their routing *)

NoIssue ==
    [present |-> FALSE, hasTitle |-> FALSE, title |-> <<>>, hasBody |-> FALSE,
     body |-> <<>>]

\* the checkbox at position i of a body, checked by a user
CheckBox(body, i) == [body EXCEPT ![i + 1] = "x"]

UncheckedBoxes(body) ==
    { i \in 1..(Len(body) - 1) : body[i] = "- [" /\ body[i + 1] = " " }

\* the re-run checkbox of a body: the box that is followed by "**Re-run"
RerunBoxes(body) ==
    { i \in 1..(Len(body) - 2) : body[i] = "- [" /\ body[i + 2] = "] **Re-run " }

PayloadBodies ==
    { <<"Issue body">> }
    \cup { CheckBox(DEVEX_SCORECARD_TEMPLATE, i) : i \in RerunBoxes(DEVEX_SCORECARD_TEMPLATE) }

PayloadIssues ==
    { NoIssue }
    \cup [ present : {TRUE}, hasTitle : {FALSE}, title : {<<>>}, hasBody : {TRUE},
           body : {<<"Issue body">>} ]
    \cup [ present : {TRUE}, hasTitle : {TRUE},
           title : {ScorecardTitle, MentionTitle, OtherTitle},
           hasBody : {FALSE}, body : {<<>>} ]
    \cup [ present : {TRUE}, hasTitle : {TRUE},
           title : {ScorecardTitle, MentionTitle, OtherTitle},
           hasBody : {TRUE}, body : PayloadBodies ]

\* json: "object" a JSON object, "null" the JSON text null, "nonjson" unparseable.
\* repositories_added: -1 absent, otherwise the length of the list.
Payloads ==
    [ json : {"object"},
      action : {"", "created", "edited", "added"},
      issue : PayloadIssues,
      repository : BOOLEAN,
      installation : {"none", "noid", "id"},
      repositories_added : -1..MaxAdded ]

EmptyPayload ==
    [ json |-> "object", action |-> "", issue |-> NoIssue, repository |-> FALSE,
      installation |-> "none", repositories_added |-> -1 ]

Requests ==
    Payloads \cup { [EmptyPayload EXCEPT !.json = "nonjson"],
                    [EmptyPayload EXCEPT !.json = "null"] }

GithubEvents == {"", "repository", "issues", "installation_repositories"}

\* JSON.parse, with the catch that turns an unparseable body into {}
parsePayload(payload) ==
    IF payload.json = "nonjson" THEN EmptyPayload ELSE payload

\* handleIssueEditEvent: what it does for an issue the router handed to it
handleIssueEditEvent(w) ==
    IF ~w.issue.hasBody THEN "throw TypeError"
    ELSE IF Includes(w.issue.body, RerunNeedle)
    THEN IF ~w.repository THEN "throw Repository information missing"
         ELSE IF w.installation # "id" THEN "throw Installation ID missing"
         ELSE "handleScorecardRerun"
    ELSE "return"

\* processWebhookEvent with the repository rule tried before the issue rule
processWebhookEvent_RepositoryFirst(w, githubEvent) ==
    IF w.json = "null" THEN "throw TypeError"
    ELSE IF w.repository /\ w.action \in {"created", "edited"}
            /\ w.installation # "none" /\ githubEvent = "repository"
    THEN "createOrUpdateScorecardIssue"
    ELSE IF w.issue.present /\ w.action = "edited" /\ ~w.issue.hasTitle
    THEN "throw TypeError"
    ELSE IF w.issue.present /\ w.action = "edited"
            /\ Includes(w.issue.title, TitleNeedle)
    THEN handleIssueEditEvent(w)
    ELSE IF w.action = "added" /\ w.repositories_added > 0
            /\ w.installation # "none"
    THEN "handleInstallationAddedEvent"
    ELSE "return"

\* processWebhookEvent: the operation the event is routed to
processWebhookEvent(w, githubEvent) ==
    IF w.json = "null" THEN "throw TypeError"
    ELSE IF w.issue.present /\ w.action = "edited" /\ ~w.issue.hasTitle
    THEN "throw TypeError"
    ELSE IF w.issue.present /\ w.action = "edited"
            /\ Includes(w.issue.title, TitleNeedle)
    THEN handleIssueEditEvent(w)
    ELSE IF w.repository /\ w.action \in {"created", "edited"}
            /\ w.installation # "none" /\ githubEvent = "repository"
    THEN "createOrUpdateScorecardIssue"
    ELSE IF w.action = "added" /\ w.repositories_added > 0
            /\ w.installation # "none"
    THEN "handleInstallationAddedEvent"
    ELSE "return"

\* handleWebhook up to the routing: the answer it gives at once, or status 0
\* when the request goes on to processWebhookEvent
Pass == [status |-> 0, error |-> ""]

\* handleWebhook without the verification of the signature
handleWebhookGate_Unverified(cfg, signature, githubEvent) ==
    IF validateProductionConfigThrows(cfg)
    THEN [status |-> 500, error |-> "Server configuration error"]
    ELSE IF signature.kind = "none"
    THEN [status |-> 401, error |-> "Unauthorized: Missing signature"]
    ELSE IF githubEvent = ""
    THEN [status |-> 400, error |-> "Bad Request: Missing event type"]
    ELSE Pass

handleWebhookGate(cfg, signature, githubEvent) ==
    IF validateProductionConfigThrows(cfg)
    THEN [status |-> 500, error |-> "Server configuration error"]
    ELSE IF signature.kind = "none"
    THEN [status |-> 401, error |-> "Unauthorized: Missing signature"]
    ELSE IF githubEvent = ""
    THEN [status |-> 400, error |-> "Bad Request: Missing event type"]
    ELSE IF ~verifySignature(cfg, signature)
    THEN [status |-> 401, error |-> "Unauthorized: Invalid signature"]
    ELSE Pass

----------------------------------------------------------------------------
(* Processes: a webhook request or a direct call of the IssueManagerService *)

\* what is remembered of a webhook request (history of the request)
NoReq ==
    [ authentic |-> FALSE, editMatch |-> FALSE, alsoRepoEvent |-> FALSE,
      malformed |-> FALSE, checked |-> "none", noEvent |-> FALSE ]

IdleProc ==
    [ pc |-> "idle", op |-> "none", via |-> "none",
      force |-> FALSE, agent |-> FALSE,
      target |-> 0, write |-> "none", body |-> <<>>, more |-> 0,
      nList |-> 0, nGen |-> 0, nCreate |-> 0, nUpdate |-> 0, nComment |-> 0,
      updState |-> "", updNo |-> 0, wrote |-> 0,
      found |-> 0, foundState |-> "", ok |-> TRUE, result |-> 0,
      outcome |-> "none", status |-> 0, error |-> "", req |-> NoReq, pre |-> <<>>,
      gen |-> "none", listFailed |-> FALSE, reqPre |-> <<>>,
      prevIdem |-> FALSE, steps |-> <<>> ]

\* a call of createOrUpdateScorecardIssue begins: the next step is the lookup
BeginCreateOrUpdate(base, force, agent, more, iss) ==
    [ base EXCEPT !.pc = "lookup", !.op = "createOrUpdate",
                  !.force = force, !.agent = agent, !.more = more,
                  !.target = 0, !.write = "none", !.body = <<>>,
                  !.nList = 0, !.nGen = 0, !.nCreate = 0, !.nUpdate = 0,
                  !.nComment = 0, !.updState = "", !.updNo = 0, !.wrote = 0,
                  !.found = 0, !.foundState = "", !.ok = TRUE, !.result = 0,
                  !.outcome = "none", !.gen = "none", !.listFailed = FALSE,
                  !.steps = <<>>,
                  !.pre = iss, !.prevIdem = hist.idemOk /\ ~hist.closedSince ]

\* a call of handleScorecardRerun begins: the body defaults to the static
\* template and the generator is asked only when an agent is configured
BeginRerun(base, number, agent, iss) ==
    [ base EXCEPT !.pc = IF agent THEN "generate" ELSE "write",
                  !.op = "rerun", !.force = FALSE, !.agent = agent, !.more = 0,
                  !.target = number, !.write = "rerunUpdate",
                  !.body = DEVEX_SCORECARD_TEMPLATE,
                  !.nList = 0, !.nGen = 0, !.nCreate = 0, !.nUpdate = 0,
                  !.nComment = 0, !.updState = "", !.updNo = 0, !.wrote = 0,
                  !.found = 0, !.foundState = "", !.ok = TRUE, !.result = 0,
                  !.outcome = "none", !.gen = "none", !.listFailed = FALSE,
                  !.steps = <<>>,
                  !.pre = iss, !.prevIdem = hist.idemOk /\ ~hist.closedSince ]

CallStarted == [hist EXCEPT !.closedSince = FALSE]

\* the record of a call that has just ended
CallEnded(q) ==
    [ idemOk |-> q.op = "createOrUpdate" /\ ~q.force /\ q.outcome = "returned"
                 /\ q.ok,
      closedSince |-> hist.closedSince ]

\* the model counts at most MaxComments comments per issue
CanRerun(number, iss) ==
    number <= Len(iss) => iss[number].comments < MaxComments

----------------------------------------------------------------------------
(* The decision of createOrUpdateScorecardIssue once the lookup has answered *)

decide(existingIssue, state, forceUpdate) ==
    IF existingIssue # 0
    THEN IF forceUpdate \/ state = "closed" THEN "update" ELSE "skip"
    ELSE "create"

----------------------------------------------------------------------------
(* Tracker writes *)

\* issues.create without the devex-scorecard label
createRequest_Unlabelled(body) ==
    NewIssue(ScorecardTitle, {"documentation"}, body)

\* issues.create({title, body, labels})
createRequest(body) ==
    NewIssue(ScorecardTitle, ScorecardLabels, body)

\* the updateData with state 'closed'
updateAIScorecardIssueRequest_Close(issueNumber, body, reopenIfClosed) ==
    [ number |-> issueNumber, setTitle |-> TRUE, title |-> ScorecardTitle,
      body |-> body, setLabels |-> TRUE, labels |-> ScorecardLabels,
      setState |-> TRUE, state |-> "closed" ]

\* the updateData without a state field
updateAIScorecardIssueRequest_KeepState(issueNumber, body, reopenIfClosed) ==
    [ number |-> issueNumber, setTitle |-> TRUE, title |-> ScorecardTitle,
      body |-> body, setLabels |-> TRUE, labels |-> ScorecardLabels,
      setState |-> FALSE, state |-> "" ]

\* the updateData of updateAIScorecardIssue
updateAIScorecardIssueRequest(issueNumber, body, reopenIfClosed) ==
    [ number |-> issueNumber, setTitle |-> TRUE, title |-> ScorecardTitle,
      body |-> body, setLabels |-> TRUE, labels |-> ScorecardLabels,
      setState |-> reopenIfClosed, state |-> "open" ]

\* a re-run update that reopens the issue as well
rerunUpdateRequest_Reopen(issueNumber, body) ==
    [ number |-> issueNumber, setTitle |-> FALSE, title |-> <<>>,
      body |-> body, setLabels |-> FALSE, labels |-> {},
      setState |-> TRUE, state |-> "open" ]

\* the issues.update of handleScorecardRerun: the body alone
rerunUpdateRequest(issueNumber, body) ==
    [ number |-> issueNumber, setTitle |-> FALSE, title |-> <<>>,
      body |-> body, setLabels |-> FALSE, labels |-> {},
      setState |-> FALSE, state |-> "" ]

\* a tracker that answers a create with the issue of the same title it has
applyCreate_Dedup(iss, c) ==
    IF \E n \in 1..Len(iss) : iss[n].title = c.title THEN iss ELSE Append(iss, c)

\* issues.create applied by the tracker: a new issue with the next number
applyCreate(iss, c) == Append(iss, c)

\* issues.update applied by the tracker: fields not sent are kept
applyUpdate(iss, u) ==
    [ iss EXCEPT ![u.number] =
        [ title |-> IF u.setTitle THEN u.title ELSE @.title,
          labels |-> IF u.setLabels THEN u.labels ELSE @.labels,
          state |-> IF u.setState THEN u.state ELSE @.state,
          body |-> u.body,
          comments |-> @.comments ] ]

\* issues.createComment applied by the tracker
applyComment(iss, number) ==
    [ iss EXCEPT ![number].comments = @ + 1 ]

\* WebhookHandler constructs its IssueManagerService without an AgentConfig
HandlerAgentConfigured == FALSE

----------------------------------------------------------------------------
(* Initial state *)

NoCalc == [fn |-> "none", args |-> <<>>, out |-> <<>>]

\* the body of a user's own issue that quotes the re-run line of a scorecard
MentionBody ==
    << "Issue body", "- [", " ", "] **Re-run ", "scorecard", "**" >>

InitialTrackers ==
    { <<>>,
      << NewIssue(MentionTitle, {}, MentionBody) >> }

\* a production deployment with its webhook secret set
ConfiguredEnv ==
    [ NODE_ENV |-> "production", WEBHOOK_SECRET |-> "s3cret",
      AZURE_AI_PROJECT_ENDPOINT |-> "", AZURE_AI_DEPLOYMENT_NAME |-> "" ]

Init ==
    /\ env = ConfiguredEnv
    /\ config = getConfig(env)
    /\ issues \in InitialTrackers
    /\ procs = [p \in Procs |-> IdleProc]
    /\ hist = [idemOk |-> FALSE, closedSince |-> FALSE]
    /\ calc = NoCalc

Quiet == \A q \in Procs : procs[q].pc = "idle"

----------------------------------------------------------------------------
(* Direct calls of the service *)

CallCreateOrUpdate(p) ==
    /\ Quiet
    /\ \E force \in BOOLEAN, agent \in BOOLEAN :
         procs' = [procs EXCEPT ![p] =
             BeginCreateOrUpdate([IdleProc EXCEPT !.via = "direct"],
                                 force, agent, 0, issues)]
    /\ hist' = CallStarted
    /\ UNCHANGED <<calc, env, config, issues>>

CallRerun(p) ==
    /\ Quiet
    /\ \E number \in 1..MaxIssues, agent \in BOOLEAN :
         /\ CanRerun(number, issues)
         /\ procs' = [procs EXCEPT ![p] =
                BeginRerun([IdleProc EXCEPT !.via = "direct"], number, agent, issues)]
    /\ hist' = CallStarted
    /\ UNCHANGED <<calc, env, config, issues>>

----------------------------------------------------------------------------
(* handleWebhook *)

\* the body is not JSON, or an issue-edited payload lacks a field the handler
\* reads
IsMalformed(w) ==
    \/ w.json = "nonjson"
    \/ /\ w.json = "object" /\ w.issue.present /\ w.action = "edited"
       /\ \/ ~w.issue.hasTitle
          \/ ~w.issue.hasBody
          \/ ~w.repository
          \/ w.installation # "id"

\* the payload also has the shape of a repository event or of an
\* installation-added event
IsAlsoRepoEvent(w, githubEvent) ==
    /\ w.json = "object"
    /\ \/ /\ w.repository /\ w.action \in {"created", "edited"}
          /\ w.installation # "none" /\ githubEvent = "repository"
       \/ /\ w.action = "added" /\ w.repositories_added > 0
          /\ w.installation # "none"

IsEditOfScorecard(w) ==
    /\ w.json = "object" /\ w.issue.present /\ w.action = "edited"
    /\ w.issue.hasTitle /\ Includes(w.issue.title, TitleNeedle)

\* handleWebhook for the request (signature, githubEvent, w); number is the
\* issue number of w.issue, checked says which box a user ticked (if any) and
\* iss is the tracker at the time of the request
HandleWebhook(p, signature, githubEvent, w, number, checked, iss) ==
    LET gate == handleWebhookGate(config, signature, githubEvent)
        intent == processWebhookEvent(parsePayload(w), githubEvent)
        req == [ authentic |-> signature.kind # "none"
                               /\ verifySignature(config, signature),
                 editMatch |-> IsEditOfScorecard(w),
                 alsoRepoEvent |-> IsAlsoRepoEvent(w, githubEvent),
                 malformed |-> IsMalformed(w),
                 checked |-> checked,
                 noEvent |-> githubEvent = "" ]
        base == [IdleProc EXCEPT !.via = "webhook", !.req = req, !.target = number,
                                 !.reqPre = iss]
        answer(status, error) ==
            [base EXCEPT !.pc = "responded", !.status = status, !.error = error]
    IN  IF gate # Pass
        THEN /\ procs' = [procs EXCEPT ![p] = answer(gate.status, gate.error)]
             /\ UNCHANGED hist
        ELSE CASE intent = "handleScorecardRerun" ->
                    /\ CanRerun(number, iss)
                    /\ procs' = [procs EXCEPT ![p] =
                           BeginRerun(base, number, HandlerAgentConfigured, iss)]
                    /\ hist' = CallStarted
               [] intent = "createOrUpdateScorecardIssue" ->
                    /\ procs' = [procs EXCEPT ![p] =
                           BeginCreateOrUpdate(base, FALSE, HandlerAgentConfigured,
                                               0, iss)]
                    /\ hist' = CallStarted
               [] intent = "handleInstallationAddedEvent" ->
                    /\ procs' = [procs EXCEPT ![p] =
                           BeginCreateOrUpdate(base, FALSE, HandlerAgentConfigured,
                                               w.repositories_added - 1, iss)]
                    /\ hist' = CallStarted
               [] intent = "return" ->
                    /\ procs' = [procs EXCEPT ![p] = answer(200, "")]
                    /\ UNCHANGED hist
               [] OTHER ->
                    /\ procs' = [procs EXCEPT ![p] =
                           answer(500, "Internal server error")]
                    /\ UNCHANGED hist

\* a request arrives at POST /webhook
Deliver(p) ==
    /\ Quiet
    /\ \E signature \in Signatures, githubEvent \in GithubEvents :
         IF handleWebhookGate(config, signature, githubEvent) # Pass
         THEN HandleWebhook(p, signature, githubEvent, EmptyPayload, 0, "none", issues)
         ELSE \E w \in Requests :
                IF processWebhookEvent(parsePayload(w), githubEvent)
                       = "handleScorecardRerun"
                THEN \E number \in 1..MaxIssues :
                       HandleWebhook(p, signature, githubEvent, w, number, "none", issues)
                ELSE HandleWebhook(p, signature, githubEvent, w, 0, "none", issues)
    /\ UNCHANGED <<calc, env, config, issues>>

\* a user ticks a checkbox of an issue's body; the tracker stores the edit and
\* sends the issues/edited event with the issue as it now is
UserChecksBox(p) ==
    /\ Quiet
    /\ \E number \in 1..Len(issues), signature \in Signatures :
         \E i \in UncheckedBoxes(issues[number].body) :
            LET body == CheckBox(issues[number].body, i)
                iss == [issues EXCEPT ![number].body = body]
                w == [ json |-> "object", action |-> "edited",
                       issue |-> [ present |-> TRUE, hasTitle |-> TRUE,
                                   title |-> issues[number].title,
                                   hasBody |-> TRUE, body |-> body ],
                       repository |-> TRUE, installation |-> "id",
                       repositories_added |-> -1 ]
            IN  /\ issues' = iss
                /\ HandleWebhook(p, signature, "issues", w, number,
                                 IF i \in RerunBoxes(issues[number].body)
                                 THEN "rerun" ELSE "other", iss)
    /\ UNCHANGED <<calc, env, config>>

\* a user closes an issue in the tracker
UserCloses ==
    /\ \E number \in 1..Len(issues) :
         /\ issues[number].state = "open"
         /\ issues' = [issues EXCEPT ![number].state = "closed"]
    /\ hist' = [hist EXCEPT !.closedSince = TRUE]
    /\ UNCHANGED <<calc, env, config, procs>>

----------------------------------------------------------------------------
(* The steps of createOrUpdateScorecardIssue and handleScorecardRerun *)

\* a call ends: it returned or it threw
EndCall(p, q) ==
    /\ procs' = [procs EXCEPT ![p] = [q EXCEPT !.pc = "callEnd"]]
    /\ hist' = CallEnded(q)

\* createAIScorecardIssue and updateAIScorecardIssue that never ask the
\* generator
afterLookup_NoGenerator(agent) == "write"

\* createAIScorecardIssue and updateAIScorecardIssue begin: the generator is
\* asked when an agent is configured, and the write comes after it
afterLookup(agent) == IF agent THEN "generate" ELSE "write"

\* findExistingScorecardIssue answers and createOrUpdateScorecardIssue decides
Lookup(p) ==
    /\ procs[p].pc = "lookup"
    /\ \E listOk \in BOOLEAN :
         LET q == procs[p]
             found == findExistingScorecardIssue(issues, listOk)
             d == decide(found, IF found # 0 THEN issues[found].state ELSE "",
                         q.force)
             q1 == [q EXCEPT !.nList = @ + 1, !.found = found,
                             !.steps = Append(@, "lookup"),
                             !.foundState =
                                 IF found # 0 THEN issues[found].state ELSE "",
                             !.listFailed = ~listOk,
                             !.ok = @ /\ listOk]
         IN  IF d = "skip"
             THEN EndCall(p, [q1 EXCEPT !.result = found, !.outcome = "returned"])
             ELSE /\ procs' = [procs EXCEPT ![p] =
                        [q1 EXCEPT !.write = d, !.target = found,
                                   !.body = DEVEX_SCORECARD_TEMPLATE,
                                   !.pc = afterLookup(q.agent)]]
                  /\ UNCHANGED hist
    /\ UNCHANGED <<calc, env, config, issues>>

\* an issue body left empty when the generator fails
issueBodyAfterGenerate_NoFallback(issueBody, genOk, result) ==
    IF genOk THEN generateAIScorecardTemplate(result) ELSE <<>>

\* issueBody after the try/catch around generateScorecard: the AI body, or
\* the body it had (the static template) when the generator threw
issueBodyAfterGenerate(issueBody, genOk, result) ==
    IF genOk THEN generateAIScorecardTemplate(result) ELSE issueBody

\* agentService.generateScorecard answers: a result, or an error that is
\* caught and leaves the static template in place
Generate(p) ==
    /\ procs[p].pc = "generate"
    /\ \E genOk \in BOOLEAN, result \in GenResults :
         procs' = [procs EXCEPT ![p] =
             [@ EXCEPT !.nGen = @ + 1, !.pc = "write",
                       !.steps = Append(@, "generate"),
                       !.gen = IF genOk THEN "ok" ELSE "failed",
                       !.body = issueBodyAfterGenerate(@, genOk, result)]]
    /\ UNCHANGED <<calc, env, config, issues, hist>>

\* the tracker write of the call: issues.create or issues.update
Write(p) ==
    /\ procs[p].pc = "write"
    /\ LET q == procs[p] IN
       \E writeOk \in BOOLEAN :
         CASE q.write = "create" ->
                LET q1 == [q EXCEPT !.nCreate = @ + 1,
                                    !.steps = Append(@, "create")] IN
                IF writeOk
                THEN /\ Len(issues) < MaxIssues
                     /\ issues' = applyCreate(issues, createRequest(q.body))
                     /\ EndCall(p, [q1 EXCEPT !.wrote = Len(issues'),
                                              !.result = Len(issues'),
                                              !.outcome = "returned"])
                ELSE /\ UNCHANGED issues
                     /\ EndCall(p, [q1 EXCEPT !.ok = FALSE, !.outcome = "threw"])
           [] q.write = "update" ->
                LET u == updateAIScorecardIssueRequest(q.target, q.body, TRUE)
                    q1 == [q EXCEPT !.nUpdate = @ + 1, !.updNo = u.number,
                                    !.steps = Append(@, "update"),
                                    !.updState = IF u.setState THEN u.state ELSE ""]
                IN
                IF writeOk
                THEN /\ issues' = applyUpdate(issues, u)
                     /\ EndCall(p, [q1 EXCEPT !.wrote = u.number,
                                              !.result = u.number,
                                              !.outcome = "returned"])
                ELSE /\ UNCHANGED issues
                     /\ EndCall(p, [q1 EXCEPT !.ok = FALSE, !.outcome = "threw"])
           [] q.write = "rerunUpdate" ->
                LET u == rerunUpdateRequest(q.target, q.body)
                    q1 == [q EXCEPT !.nUpdate = @ + 1, !.updNo = u.number,
                                    !.steps = Append(@, "update"),
                                    !.updState = IF u.setState THEN u.state ELSE ""]
                IN
                IF writeOk
                THEN /\ u.number <= Len(issues)
                     /\ issues' = applyUpdate(issues, u)
                     /\ procs' = [procs EXCEPT ![p] =
                            [q1 EXCEPT !.wrote = u.number, !.pc = "comment"]]
                     /\ UNCHANGED hist
                ELSE /\ UNCHANGED issues
                     /\ EndCall(p, [q1 EXCEPT !.ok = FALSE, !.outcome = "threw"])
    /\ UNCHANGED <<calc, env, config>>

\* issues.createComment of handleScorecardRerun
Comment(p) ==
    /\ procs[p].pc = "comment"
    /\ LET q == procs[p]
           q1 == [q EXCEPT !.nComment = @ + 1, !.steps = Append(@, "comment")]
       IN
       \E commentOk \in BOOLEAN :
         IF commentOk
         THEN /\ issues[q.target].comments < MaxComments
              /\ issues' = applyComment(issues, q.target)
              /\ EndCall(p, [q1 EXCEPT !.outcome = "returned"])
         ELSE /\ UNCHANGED issues
              /\ EndCall(p, [q1 EXCEPT !.ok = FALSE, !.outcome = "threw"])
    /\ UNCHANGED <<calc, env, config>>

\* handleWebhook after the service call: the catch answers 500, the loop of
\* handleInstallationAddedEvent goes on to the next repository, else 200
Continue(p) ==
    /\ procs[p].pc = "callEnd"
    /\ procs[p].via = "webhook"
    /\ LET q == procs[p] IN
       IF q.outcome = "threw"
       THEN /\ procs' = [procs EXCEPT ![p] =
                   [q EXCEPT !.pc = "responded", !.status = 500,
                             !.error = "Internal server error"]]
            /\ UNCHANGED hist
       ELSE IF q.more > 0
       THEN /\ procs' = [procs EXCEPT ![p] =
                   BeginCreateOrUpdate(q, FALSE, HandlerAgentConfigured,
                                       q.more - 1, issues)]
            /\ hist' = CallStarted
       ELSE /\ procs' = [procs EXCEPT ![p] =
                   [q EXCEPT !.pc = "responded", !.status = 200]]
            /\ UNCHANGED hist
    /\ UNCHANGED <<calc, env, config, issues>>

\* the caller has its result; the process is free again
Return(p) ==
    /\ \/ procs[p].pc = "callEnd" /\ procs[p].via = "direct"
       \/ procs[p].pc = "responded"
    /\ procs' = [procs EXCEPT ![p] = IdleProc]
    /\ UNCHANGED <<calc, env, config, issues, hist>>

----------------------------------------------------------------------------
(* Specifications *)

\* The reconciler under calls of its service and under the tracker's users.
\* Requests and calls do not overlap: one begins only when none is in progress
\* (Quiet).
Next ==
    \/ \E p \in Procs : CallCreateOrUpdate(p)
    \/ \E p \in Procs : CallRerun(p)
    \/ \E p \in Procs : UserChecksBox(p)
    \/ \E p \in Procs : Lookup(p)
    \/ \E p \in Procs : Generate(p)
    \/ \E p \in Procs : Write(p)
    \/ \E p \in Procs : Comment(p)
    \/ \E p \in Procs : Continue(p)
    \/ \E p \in Procs : Return(p)
    \/ UserCloses

Spec == Init /\ [][Next]_vars

\* Two callers of createOrUpdateScorecardIssue for one repository whose calls
\* may overlap: a call begins whenever its caller is idle, whatever the other
\* caller is doing (the service holds no lock and makes no reservation).
RaceProcs == {"p1", "p2"}

RaceInit ==
    /\ env = ConfiguredEnv
    /\ config = getConfig(env)
    /\ issues \in InitialTrackers
    /\ procs = [p \in RaceProcs |-> IdleProc]
    /\ hist = [idemOk |-> FALSE, closedSince |-> FALSE]
    /\ calc = NoCalc

\* the callers are services without an agent, as the webhook handler's is
CallOverlapping(p) ==
    /\ procs[p].pc = "idle"
    /\ \E force \in BOOLEAN :
         procs' = [procs EXCEPT ![p] =
             BeginCreateOrUpdate([IdleProc EXCEPT !.via = "direct"],
                                 force, HandlerAgentConfigured, 0, issues)]
    /\ hist' = CallStarted
    /\ UNCHANGED <<calc, env, config, issues>>

RaceNext ==
    \/ \E p \in RaceProcs : CallOverlapping(p)
    \/ \E p \in RaceProcs : Lookup(p)
    \/ \E p \in RaceProcs : Write(p)
    \/ \E p \in RaceProcs : Return(p)

RaceSpec == RaceInit /\ [][RaceNext]_vars

----------------------------------------------------------------------------
(* handleInstallationAddedEvent over several repositories *)

\* The repositories of the installation. In this specification issues maps
\* each repository to its tracker, and a process is a delivery of an
\* installation_repositories event.
RepoKeys ==
    { [owner |-> <<"acme">>, repo |-> "api"],
      [owner |-> <<"acme">>, repo |-> "web"],
      [owner |-> <<"hmcts">>, repo |-> "api"] }

\* an element of repositories_added as GitHub sends it
AddedEntry(key) ==
    [ name |-> key.repo, full_name |-> key.owner \o <<"/", key.repo>> ]

\* the lists of 1..MaxAdded repositories an event can carry
AddedLists ==
    UNION { [1..n -> {AddedEntry(k) : k \in RepoKeys}] : n \in 1..MaxAdded }

\* repo.full_name.split('/')[0] with the whole name taken for the owner
ownerLogin_WholeName(full_name) == full_name

\* repo.full_name.split('/')[0]
ownerLogin(full_name) ==
    LET slashes == { i \in 1..Len(full_name) : full_name[i] = "/" } IN
    IF slashes = {} THEN full_name
    ELSE SubSeq(full_name, 1, (CHOOSE i \in slashes : \A j \in slashes : i <= j) - 1)

\* repoData of handleInstallationAddedEvent, as the tracker call addresses it
repoData(repo) == [owner |-> ownerLogin(repo.full_name), repo |-> repo.name]

\* the tracker a repository can have before the event
FanOutTrackers ==
    { <<>>,
      << NewIssue(MentionTitle, {}, MentionBody) >>,
      << [NewIssue(ScorecardTitle, ScorecardLabels, DEVEX_SCORECARD_TEMPLATE)
            EXCEPT !.state = "closed"] >> }

IdleDelivery ==
    [ pc |-> "idle", repos |-> <<>>, calls |-> <<>>, ended |-> 0,
      found |-> 0, write |-> "none", writeFailed |-> FALSE, status |-> 0 ]

FanOutInit ==
    /\ env = ConfiguredEnv
    /\ config = getConfig(env)
    /\ issues \in [RepoKeys -> FanOutTrackers]
    /\ procs = [p \in Procs |-> IdleDelivery]
    /\ hist = [idemOk |-> FALSE, closedSince |-> FALSE]
    /\ calc = NoCalc

\* the loop of handleInstallationAddedEvent starts the call for the next
\* repository of the list
StartCall(q) ==
    [q EXCEPT !.pc = "lookup", !.found = 0, !.write = "none",
              !.calls = Append(@, repoData(q.repos[Len(q.calls) + 1]))]

\* POST /webhook with an installation_repositories payload
DeliverAdded(p) ==
    /\ procs[p].pc = "idle"
    /\ \E signature \in Signatures, githubEvent \in GithubEvents,
          repositories_added \in AddedLists :
         LET gate == handleWebhookGate(config, signature, githubEvent)
             w == [ json |-> "object", action |-> "added", issue |-> NoIssue,
                    repository |-> FALSE, installation |-> "id",
                    repositories_added |-> Len(repositories_added) ]
             q == [IdleDelivery EXCEPT !.repos = repositories_added]
         IN  IF gate # Pass
             THEN procs' = [procs EXCEPT ![p] =
                      [q EXCEPT !.pc = "responded", !.status = gate.status]]
             ELSE /\ processWebhookEvent(parsePayload(w), githubEvent)
                       = "handleInstallationAddedEvent"
                  /\ procs' = [procs EXCEPT ![p] = StartCall(q)]
    /\ UNCHANGED <<calc, env, config, issues, hist>>

\* the repository the call in progress addresses
Current(q) == q.calls[Len(q.calls)]

\* findExistingScorecardIssue answers for the repository of the call
LookupAdded(p) ==
    /\ procs[p].pc = "lookup"
    /\ Current(procs[p]) \in DOMAIN issues
    /\ \E listOk \in BOOLEAN :
         LET q == procs[p]
             iss == issues[Current(q)]
             found == findExistingScorecardIssue(iss, listOk)
             d == decide(found, IF found # 0 THEN iss[found].state ELSE "", FALSE)
         IN  procs' = [procs EXCEPT ![p] =
                 IF d = "skip"
                 THEN [q EXCEPT !.pc = "callEnd", !.found = found,
                                !.ended = @ + 1]
                 ELSE [q EXCEPT !.pc = "write", !.found = found, !.write = d]]
    /\ UNCHANGED <<calc, env, config, issues, hist>>

\* issues.create or issues.update for the repository of the call
WriteAdded(p) ==
    /\ procs[p].pc = "write"
    /\ LET q == procs[p]
           key == Current(q)
           iss == issues[key]
       IN
       \E writeOk \in BOOLEAN :
         IF ~writeOk
         THEN /\ procs' = [procs EXCEPT ![p] =
                     [q EXCEPT !.pc = "threw", !.writeFailed = TRUE]]
              /\ UNCHANGED issues
         ELSE /\ q.write = "create" => Len(iss) < MaxIssues
              /\ issues' = [issues EXCEPT ![key] =
                     IF q.write = "create"
                     THEN applyCreate(iss, createRequest(DEVEX_SCORECARD_TEMPLATE))
                     ELSE applyUpdate(iss, updateAIScorecardIssueRequest(
                              q.found, DEVEX_SCORECARD_TEMPLATE, TRUE))]
              /\ procs' = [procs EXCEPT ![p] =
                     [q EXCEPT !.pc = "callEnd", !.ended = @ + 1]]
    /\ UNCHANGED <<calc, env, config, hist>>

\* after a call: the loop goes on, or handleWebhook answers 200; an error
\* thrown by the call ends the loop and is answered with 500
ContinueAdded(p) ==
    /\ procs[p].pc \in {"callEnd", "threw"}
    /\ LET q == procs[p] IN
       procs' = [procs EXCEPT ![p] =
           IF q.pc = "threw" THEN [q EXCEPT !.pc = "responded", !.status = 500]
           ELSE IF Len(q.calls) < Len(q.repos) THEN StartCall(q)
           ELSE [q EXCEPT !.pc = "responded", !.status = 200]]
    /\ UNCHANGED <<calc, env, config, issues, hist>>

ReturnAdded(p) ==
    /\ procs[p].pc = "responded"
    /\ procs' = [procs EXCEPT ![p] = IdleDelivery]
    /\ UNCHANGED <<calc, env, config, issues, hist>>

\* Deliveries of installation_repositories events, one at a time; the users
\* of the trackers do not act while a delivery is handled.
FanOutNext ==
    \/ \E p \in Procs : DeliverAdded(p)
    \/ \E p \in Procs : LookupAdded(p)
    \/ \E p \in Procs : WriteAdded(p)
    \/ \E p \in Procs : ContinueAdded(p)
    \/ \E p \in Procs : ReturnAdded(p)

FanOutSpec == FanOutInit /\ [][FanOutNext]_vars

----------------------------------------------------------------------------
(* The objects of the scoring module *)

\* In this specification calc is the heap of the scoring module: bands are
\* the band objects {min, max, description}, ranges the objects that map a
\* band name to a band object, services the ScoringConfigService instances.
\* A service's config holds its thresholds by value and its ranges object by
\* reference (an index into ranges); born is the configuration the service
\* had when its constructor returned.
MaxServices == 3

BandAddress(b) == CHOOSE i \in 1..Len(BandOrder) : BandOrder[i] = b

\* the module once loaded: DEFAULT_SCORING_CONFIG and defaultScoringConfig,
\* whose config is { ...DEFAULT_SCORING_CONFIG }
LoadedModule ==
    [ fn |-> "load",
      bands |-> [i \in 1..Len(BandOrder) |-> DEFAULT_SCORING_CONFIG.ranges[BandOrder[i]]],
      ranges |-> << [b \in DOMAIN DEFAULT_SCORING_CONFIG.ranges |-> BandAddress(b)] >>,
      services |-> << [ greenThreshold |-> DEFAULT_SCORING_CONFIG.greenThreshold,
                        yellowThreshold |-> DEFAULT_SCORING_CONFIG.yellowThreshold,
                        redThreshold |-> DEFAULT_SCORING_CONFIG.redThreshold,
                        defaultScore |-> DEFAULT_SCORING_CONFIG.defaultScore,
                        ranges |-> 1,
                        born |-> DEFAULT_SCORING_CONFIG ] >> ]

\* the configuration a service computes with: its config with the references
\* followed
Deref(heap, service) ==
    [ greenThreshold |-> service.greenThreshold,
      yellowThreshold |-> service.yellowThreshold,
      redThreshold |-> service.redThreshold,
      defaultScore |-> service.defaultScore,
      ranges |-> [b \in DOMAIN heap.ranges[service.ranges] |->
                     heap.bands[heap.ranges[service.ranges][b]]] ]

\* mergeConfig on the heap. Without customConfig.ranges the new config refers
\* to DEFAULT_SCORING_CONFIG.ranges itself (ranges object 1); with it, to a
\* new ranges object whose bands are the caller's band objects and, for the
\* bands not given, the band objects of the default.
mergeConfigObjects(heap, customConfig) ==
    IF customConfig = <<>> \/ customConfig[1].ranges = <<>>
    THEN [ heap |-> heap, ranges |-> 1 ]
    ELSE LET given == customConfig[1].ranges[1]
             names == SelectSeq(BandOrder, LAMBDA b : b \in DOMAIN given)
             at(b) == CHOOSE i \in 1..Len(names) : names[i] = b
             bands == heap.bands \o [i \in 1..Len(names) |-> given[names[i]]]
             object == [b \in DOMAIN heap.ranges[1] |->
                          IF b \in DOMAIN given THEN Len(heap.bands) + at(b)
                          ELSE heap.ranges[1][b]]
         IN  [ heap |-> [heap EXCEPT !.bands = bands,
                                     !.ranges = Append(@, object)],
               ranges |-> Len(heap.ranges) + 1 ]

\* the configurations callers construct services with
ServiceConfigs ==
    { <<>> } \cup
    { << [ greenThreshold |-> g, yellowThreshold |-> <<>>, redThreshold |-> <<>>,
           defaultScore |-> <<>>, ranges |-> r ] >> :
        g \in {<<>>, <<100>>},
        r \in {<<>>, << [b \in {"excellent"} |-> [min |-> 100, max |-> 100]] >>} }

ObjectsInit ==
    /\ env = ConfiguredEnv
    /\ config = getConfig(env)
    /\ issues = <<>>
    /\ procs = [p \in Procs |-> IdleProc]
    /\ hist = [idemOk |-> FALSE, closedSince |-> FALSE]
    /\ calc = LoadedModule

\* new ScoringConfigService(customConfig) that returns
NewService ==
    /\ Len(calc.services) < MaxServices
    /\ \E customConfig \in ServiceConfigs :
         LET values == mergeConfig(DEFAULT_SCORING_CONFIG, customConfig)
             merged == mergeConfigObjects(calc, customConfig)
             service == [ greenThreshold |-> values.greenThreshold,
                          yellowThreshold |-> values.yellowThreshold,
                          redThreshold |-> values.redThreshold,
                          defaultScore |-> values.defaultScore,
                          ranges |-> merged.ranges,
                          born |-> <<>> ]
             cfg == Deref(merged.heap, service)
         IN  /\ validateConfig(cfg) = <<>>
             /\ calc' = [merged.heap EXCEPT
                            !.fn = "new",
                            !.services = Append(@, [service EXCEPT !.born = cfg])]
    /\ UNCHANGED <<env, config, issues, procs, hist>>

\* getConfig(): { ...this.config }, a new object with the thresholds copied
\* and the same ranges object
getConfigCopy(service) ==
    [ greenThreshold |-> service.greenThreshold,
      yellowThreshold |-> service.yellowThreshold,
      redThreshold |-> service.redThreshold,
      defaultScore |-> service.defaultScore,
      ranges |-> service.ranges ]

\* a caller runs service.getConfig().greenThreshold = value: the copy is
\* written and dropped
WriteThreshold ==
    /\ \E i \in 1..Len(calc.services), value \in {0, 100} :
         LET copy == [getConfigCopy(calc.services[i]) EXCEPT !.greenThreshold = value]
         IN  calc' = [calc EXCEPT !.fn = "write threshold"]
    /\ UNCHANGED <<env, config, issues, procs, hist>>

\* a caller runs service.getConfig().ranges[band].min = value
WriteBand ==
    /\ \E i \in 1..Len(calc.services), band \in {"excellent", "veryPoor"},
          value \in {0, 95} :
         LET copy == getConfigCopy(calc.services[i])
             address == calc.ranges[copy.ranges][band]
         IN  calc' = [calc EXCEPT !.fn = "write band",
                                  !.bands[address].min = value]
    /\ UNCHANGED <<env, config, issues, procs, hist>>

\* a caller runs c = service.getConfig(); c.ranges[band] = c.ranges[other]
AssignBand ==
    /\ \E i \in 1..Len(calc.services), band \in {"excellent"}, other \in {"good"} :
         LET copy == getConfigCopy(calc.services[i])
         IN  calc' = [calc EXCEPT !.fn = "assign band",
                                  !.ranges[copy.ranges][band] =
                                      calc.ranges[copy.ranges][other]]
    /\ UNCHANGED <<env, config, issues, procs, hist>>

\* Callers of the scoring module: they construct services and write into
\* what getConfig() returns.
ObjectsNext == NewService \/ WriteThreshold \/ WriteBand \/ AssignBand

ObjectsSpec == ObjectsInit /\ [][ObjectsNext]_vars

\* POST /webhook under arbitrary requests, in any deployment
GateInit ==
    /\ env \in Environments
    /\ config = getConfig(env)
    /\ issues \in InitialTrackers
    /\ procs = [p \in Procs |-> IdleProc]
    /\ hist = [idemOk |-> FALSE, closedSince |-> FALSE]
    /\ calc = NoCalc

GateNext ==
    \/ \E p \in Procs : Deliver(p)
    \/ \E p \in Procs : Lookup(p)
    \/ \E p \in Procs : Write(p)
    \/ \E p \in Procs : Comment(p)
    \/ \E p \in Procs : Continue(p)
    \/ \E p \in Procs : Return(p)
    \/ UserCloses

GateSpec == GateInit /\ [][GateNext]_vars

\* The pure functions of the program, each applied to arguments drawn from
\* its domain
FunctionsInit ==
    /\ env = ConfiguredEnv
    /\ config = getConfig(env)
    /\ issues = <<>>
    /\ procs = [p \in Procs |-> IdleProc]
    /\ hist = [idemOk |-> FALSE, closedSince |-> FALSE]
    /\ calc = NoCalc

\* processWebhookEvent is applied to a parsed payload and an event type
Route ==
    /\ calc.fn = "none"
    /\ \E w \in Requests, githubEvent \in GithubEvents \ {""} :
         calc' = [ fn |-> "processWebhookEvent", args |-> <<w, githubEvent>>,
                   out |-> processWebhookEvent(parsePayload(w), githubEvent) ]
    /\ UNCHANGED <<env, config, issues, procs, hist>>

\* custom scoring configurations: thresholds, default score and bands around
\* the limits the validation tests
ThresholdValues == {0, 50, 70, 100}
DefaultScoreValues == {-1, 0, 50, 100, 101}
BandOverrides ==
    { <<>> } \cup
    { << [b \in {band} |-> [min |-> lo, max |-> hi]] >> :
        band \in {"excellent", "moderate", "veryPoor"},
        lo \in {-1, 0, 40, 100}, hi \in {0, 39, 100, 101} }

Optional(S) == { <<>> } \cup { <<v>> : v \in S }

CustomConfigs ==
    [ greenThreshold : Optional(ThresholdValues),
      yellowThreshold : Optional(ThresholdValues),
      redThreshold : Optional({-5, 0, 50}),
      defaultScore : Optional(DefaultScoreValues),
      ranges : BandOverrides ]

ThresholdConfigs ==
    [ greenThreshold : Optional(ThresholdValues),
      yellowThreshold : Optional(ThresholdValues),
      redThreshold : Optional({-5, 0, 50}),
      defaultScore : {<<>>}, ranges : {<<>>} ]

Scores == {-1, 0, 49, 50, 69, 70, 99, 100, 101}

\* new ScoringConfigService(customConfig)
Construct ==
    /\ calc.fn = "none"
    /\ \E customConfig \in { <<>> } \cup { <<c>> : c \in CustomConfigs } :
         calc' = [ fn |-> "ScoringConfigService", args |-> <<customConfig>>,
                   out |-> ScoringConfigService(customConfig) ]
    /\ UNCHANGED <<env, config, issues, procs, hist>>

\* getScoreColor of a constructed service, for two scores
Color ==
    /\ calc.fn = "none"
    /\ \E c \in ThresholdConfigs, s1 \in Scores, s2 \in Scores :
         LET service == ScoringConfigService(<<c>>) IN
         /\ service.error = <<>>
         /\ calc' = [ fn |-> "getScoreColor", args |-> <<service.config, s1, s2>>,
                      out |-> << getScoreColor(service.config, s1),
                                 getScoreColor(service.config, s2) >> ]
    /\ UNCHANGED <<env, config, issues, procs, hist>>

\* members of the JSON object of a response, each absent, of a wrong type, out
\* of range or well-formed
ScoreMembers ==
    { AbsentValue, [t |-> "null", n |-> 0, f |-> 0, s |-> <<>>],
      [t |-> "Infinity", n |-> 0, f |-> 0, s |-> <<>>],
      [t |-> "number", n |-> 85, f |-> 5, s |-> <<>>] }
    \cup { [t |-> "number", n |-> n, f |-> 0, s |-> <<>>] : n \in {-5, 0, 85, 100, 150} }
    \cup { [t |-> "string", n |-> 0, f |-> 0, s |-> str] :
             str \in { <<>>, <<"8", "5">>, <<"1", "5", "0">>, <<"-", "5">>,
                       <<"a", "b", "c">>, <<" ", "4", "2", "%">> } }

ColorMembers ==
    { [t |-> "absent", s |-> ""], [t |-> "number", s |-> ""] }
    \cup { [t |-> "string", s |-> c] :
             c \in {"red", "yellow", "green", "RED", "blue", ""} }

AnalysisMembers ==
    { [t |-> "absent", s |-> <<>>], [t |-> "number", s |-> <<>>] }
    \cup { [t |-> "string", s |-> str] :
             str \in { <<>>, <<" ", " ">>, <<" ", "Well documented.", " ">> } }

RecommendationElements ==
    { [t |-> "number", s |-> <<>>] }
    \cup { [t |-> "string", s |-> str] :
             str \in { <<>>, <<" ">>, <<" ", "Add CI", " ">> } }

RecommendationMembers ==
    { [t |-> "absent", a |-> <<>>], [t |-> "string", a |-> <<>>],
      [t |-> "array", a |-> <<>>] }
    \cup { [t |-> "array", a |-> <<e>>] : e \in RecommendationElements }
    \cup { [t |-> "array", a |-> <<e, [t |-> "string", s |-> <<"Add tests">>]>>] :
             e \in RecommendationElements }

Objects ==
    [ score : ScoreMembers, color : ColorMembers, analysis : AnalysisMembers,
      recommendations : RecommendationMembers ]

Prose == Text(<<"Here is the analysis">>)

Responses ==
    { <<>>, <<Prose>>, <<Prose, Brace("{"), Prose>>, <<Brace("}"), Prose, Brace("{")>>,
      <<Brace("{"), Brace("}")>>, <<Prose, Brace("{"), Prose, Brace("}")>>,
      <<Brace("{"), Members(EmptyObject), Brace("}"), Prose, Brace("}")>> }
    \cup { <<Brace("{"), Members(obj), Brace("}")>> : obj \in Objects }
    \cup { <<Prose, Brace("{"), Members(obj), Brace("}"), Prose>> : obj \in Objects }

\* the scoring configurations of the parser: the default one and a custom one
ParserConfigs ==
    { <<>>,
      << [ greenThreshold |-> <<>>, yellowThreshold |-> <<>>, redThreshold |-> <<>>,
           defaultScore |-> <<100>>, ranges |-> <<>> ] >> }

\* parseAIResponse of a parser service
Parse ==
    /\ calc.fn = "none"
    /\ \E customConfig \in ParserConfigs, response \in Responses :
         LET service == ScoringConfigService(customConfig) IN
         /\ service.error = <<>>
         /\ calc' = [ fn |-> "parseAIResponse", args |-> <<service.config, response>>,
                      out |-> parseAIResponse(service.config, response) ]
    /\ UNCHANGED <<env, config, issues, procs, hist>>

\* getScoreCategory of a constructed service whose bands were customised
Categorize ==
    /\ calc.fn = "none"
    /\ \E r \in BandOverrides, score \in Scores \cap 0..100 :
         LET service == ScoringConfigService(
                 << [ greenThreshold |-> <<>>, yellowThreshold |-> <<>>,
                      redThreshold |-> <<>>, defaultScore |-> <<>>, ranges |-> r ] >>)
         IN
         /\ service.error = <<>>
         /\ calc' = [ fn |-> "getScoreCategory", args |-> <<service.config, score>>,
                      out |-> getScoreCategory(service.config, score) ]
    /\ UNCHANGED <<env, config, issues, procs, hist>>

FunctionsNext ==
    \/ Route
    \/ Categorize
    \/ Parse
    \/ Construct
    \/ Color

FunctionsSpec == FunctionsInit /\ [][FunctionsNext]_vars

----------------------------------------------------------------------------
(* Properties *)

Counters(q) == <<q.nList, q.nGen, q.nCreate, q.nUpdate, q.nComment>>
NoCalls == <<0, 0, 0, 0, 0>>

\* the bodies a reconciliation can write
FreshBodies ==
    {DEVEX_SCORECARD_TEMPLATE} \cup {generateAIScorecardTemplate(r) : r \in GenResults}

\* an unforced createOrUpdateScorecardIssue call has ended with every tracker
\* call answered
EndedCreateOrUpdate(q) ==
    /\ q.pc = "callEnd" /\ q.op = "createOrUpdate"
    /\ q.outcome = "returned" /\ q.ok

\* C1: whatever sequence of non-overlapping createOrUpdateScorecardIssue and
\* handleScorecardRerun calls has run, with lookups and writes failing or not,
\* the repository holds at most one tracked issue (label devex-scorecard and
\* a title containing "DevEx Scorecard").
C1_AtMostOneTracked ==
    Cardinality(Tracked(issues)) <= 1

\* C2: when an unforced createOrUpdateScorecardIssue call follows another one
\* with no call and no close in between and every tracker call answering, the
\* second call sends no create and no update, returns the existing issue,
\* leaves the tracker as it found it, and exactly one issue is tracked.
C2_SecondCallIsNoOp ==
    \A p \in Procs :
        LET q == procs[p] IN
        (EndedCreateOrUpdate(q) /\ ~q.force /\ q.prevIdem /\ ~hist.closedSince)
        => /\ q.nCreate = 0 /\ q.nUpdate = 0 /\ q.nComment = 0
           /\ issues = q.pre
           /\ Cardinality(Tracked(issues)) = 1
           /\ q.result \in Tracked(issues)
           /\ q.result = q.found

\* C3: a webhook request whose signature header is absent or does not verify
\* is answered at once with a 4xx or 5xx status: no tracker call and no
\* generator call is made for it, and nothing is retried.
C3_NoCallWithoutValidSignature ==
    \A p \in Procs :
        LET q == procs[p] IN
        (q.via = "webhook" /\ ~q.req.authentic)
        => /\ q.pc = "responded" /\ q.op = "none"
           /\ q.status \in {400, 401, 500}
           /\ Counters(q) = NoCalls

C3_Witness ==
    \E p \in Procs :
        LET q == procs[p] IN
        /\ q.via = "webhook" /\ ~q.req.authentic
        /\ q.status = 401 /\ q.error = "Unauthorized: Invalid signature"

\* C4: in a production deployment whose WEBHOOK_SECRET is unset, every webhook
\* request is answered 500 "Server configuration error" without being
\* processed, and no default secret is in use.
C4_FailFastWithoutSecret ==
    \A p \in Procs :
        LET q == procs[p] IN
        (q.via = "webhook" /\ env.NODE_ENV = "production" /\ env.WEBHOOK_SECRET = "")
        => /\ q.pc = "responded" /\ q.op = "none"
           /\ q.status = 500 /\ q.error = "Server configuration error"
           /\ config.webhookSecret # DefaultSecret

\* C5: a createOrUpdateScorecardIssue call whose lookup answers that no
\* tracked issue exists, and whose tracker calls succeed, sends exactly one
\* create (the scorecard title, labels including devex-scorecard) and no
\* update; afterwards findExistingScorecardIssue returns the created issue,
\* which is open unless a user has closed it since.
C5_AbsentCreatesOne ==
    \A p \in Procs :
        LET q == procs[p] IN
        (EndedCreateOrUpdate(q) /\ q.found = 0)
        => /\ q.nCreate = 1 /\ q.nUpdate = 0 /\ q.nComment = 0
           /\ Len(issues) = Len(q.pre) + 1
           /\ q.result = Len(issues)
           /\ issues[q.result].title = ScorecardTitle
           /\ "devex-scorecard" \in issues[q.result].labels
           /\ issues[q.result].body \in FreshBodies
           /\ findExistingScorecardIssue(issues, TRUE) = q.result
           /\ (~hist.closedSince => issues[q.result].state = "open")

C5_Witness ==
    \E p \in Procs :
        LET q == procs[p] IN
        /\ EndedCreateOrUpdate(q) /\ q.found = 0 /\ q.nCreate = 1
        /\ ~hist.closedSince

\* C6: a createOrUpdateScorecardIssue call that finds the tracked issue closed
\* (or is forced while it is open), with tracker calls succeeding, sends
\* exactly one update of that issue with state "open" and a freshly generated
\* body and sends no create; afterwards the issue is open (unless a user has
\* closed it since) and carries that body.
C6_ClosedIsReopened ==
    \A p \in Procs :
        LET q == procs[p] IN
        (EndedCreateOrUpdate(q) /\ q.found # 0
            /\ (q.force \/ q.foundState = "closed"))
        => /\ q.nUpdate = 1 /\ q.nCreate = 0 /\ q.nComment = 0
           /\ q.updNo = q.found /\ q.updState = "open"
           /\ q.result = q.found
           /\ q.body \in FreshBodies
           /\ (q.agent => q.nGen = 1)
           /\ issues[q.found].body = q.body
           /\ Len(issues) = Len(q.pre)
           /\ (~hist.closedSince => issues[q.found].state = "open")

C6_Witness ==
    \E p \in Procs :
        LET q == procs[p] IN
        /\ EndedCreateOrUpdate(q) /\ q.found # 0 /\ ~q.force
        /\ q.foundState = "closed" /\ q.nUpdate = 1
        /\ issues[q.found].state = "open"

\* C7 as stated: every handleScorecardRerun call that has ended has sent
\* exactly one body update on the event's issue number, without a state
\* field, and has then appended exactly one comment to that issue.
C7_AlwaysOneComment ==
    \A p \in Procs :
        LET q == procs[p] IN
        (q.pc = "callEnd" /\ q.op = "rerun")
        => /\ q.nUpdate = 1 /\ q.updNo = q.target /\ q.updState = ""
           /\ q.nComment = 1
           /\ issues[q.target].comments = q.pre[q.target].comments + 1

\* C7: every handleScorecardRerun call sends exactly one body update, on the
\* issue number taken from the event and without a state field, and no lookup
\* and no create; when that update succeeds exactly one comment request
\* follows on the same issue, when it fails no comment is sent; a comment is
\* never sent before the update has succeeded, and the issue's open/closed
\* state is not changed by the call.
C7_UpdateThenComment ==
    \A p \in Procs :
        LET q == procs[p] IN
        q.op = "rerun"
        => /\ q.nList = 0 /\ q.nCreate = 0
           /\ q.nUpdate <= 1 /\ q.nComment <= 1
           /\ (q.nUpdate = 1 => q.updNo = q.target /\ q.updState = "")
           /\ (q.nComment = 1 => q.nUpdate = 1 /\ q.wrote = q.target)
           /\ (q.pc = "comment" => q.nUpdate = 1 /\ q.wrote = q.target)
           /\ (q.pc = "callEnd" =>
                 /\ q.nUpdate = 1
                 /\ (q.wrote = q.target <=> q.nComment = 1)
                 /\ (q.outcome = "returned" =>
                       /\ q.nComment = 1
                       /\ issues[q.target].comments
                              = q.pre[q.target].comments + 1))
           /\ (q.wrote = q.target =>
                 /\ issues[q.target].body \in FreshBodies
                 /\ (~hist.closedSince =>
                        issues[q.target].state = q.pre[q.target].state))

C7_Witness ==
    \E p \in Procs :
        LET q == procs[p] IN
        /\ q.op = "rerun" /\ q.pc = "callEnd" /\ q.outcome = "returned"
        /\ q.nUpdate = 1 /\ q.nComment = 1
        /\ issues[q.target].state = "closed"

\* C8: for every body the reconciler writes (static or AI), an authenticated
\* issue-edit event sent after a user has ticked that body's re-run checkbox
\* is routed to handleScorecardRerun for that issue; a tick of any other box
\* leads to no service call.
C8_RerunControlRoundTrip ==
    \A p \in Procs :
        LET q == procs[p] IN
        (q.via = "webhook" /\ q.req.authentic)
        => /\ (q.req.checked = "rerun" => q.op = "rerun")
           /\ (q.req.checked = "other" => q.op = "none")

\* C9: a payload with an issue whose title contains "DevEx Scorecard" and the
\* action "edited" is never routed to createOrUpdateScorecardIssue, even when
\* it has the shape of a repository event as well.
C9_IssueEditTakesPrecedence ==
    \A p \in Procs :
        LET q == procs[p] IN
        (q.via = "webhook" /\ q.req.editMatch)
        => /\ q.op # "createOrUpdate"
           /\ q.nList = 0 /\ q.nCreate = 0

C9_Witness ==
    \E p \in Procs :
        LET q == procs[p] IN
        /\ q.via = "webhook" /\ q.req.authentic
        /\ q.req.editMatch /\ q.req.alsoRepoEvent
        /\ q.op = "rerun" /\ q.pc = "callEnd"

\* C10: an authenticated request whose body is not JSON, or whose issue-edit
\* payload lacks a field the handler reads, is never answered with a 5xx
\* status and causes no tracker write.
C10_MalformedNeverFails ==
    \A p \in Procs :
        LET q == procs[p] IN
        (q.via = "webhook" /\ q.req.authentic /\ q.req.malformed
            /\ q.pc = "responded")
        => /\ q.status < 500
           /\ q.nCreate = 0 /\ q.nUpdate = 0 /\ q.nComment = 0

\* C11: in the create, update and rerun flows, when the configured
\* generator's generateScorecard fails, the call still sends its tracker
\* write exactly once with the static template as body, and the call fails
\* only if a tracker call fails; no webhook request is answered 500 because
\* of the generator.
C11_GeneratorFailureDegrades ==
    \A p \in Procs :
        LET q == procs[p] IN
        (q.gen = "failed")
        => /\ q.nGen = 1
           /\ q.body = DEVEX_SCORECARD_TEMPLATE
           /\ q.pc \in {"write", "comment", "callEnd", "responded"}
           /\ (q.pc # "write" =>
                 /\ q.nCreate + q.nUpdate = 1
                 /\ (q.wrote # 0 => issues[q.wrote].body = DEVEX_SCORECARD_TEMPLATE))
           /\ (q.pc = "callEnd" /\ q.outcome = "threw" =>
                 /\ ~q.ok
                 /\ (q.wrote = 0 \/ q.nComment = 1))
           /\ (q.pc = "callEnd" /\ q.wrote # 0 /\ q.op = "createOrUpdate" =>
                 q.outcome = "returned")

C11_Witness ==
    \E p \in Procs :
        LET q == procs[p] IN
        /\ q.gen = "failed" /\ q.pc = "callEnd" /\ q.outcome = "returned"
        /\ q.op = "rerun" /\ q.pre[q.target].body # DEVEX_SCORECARD_TEMPLATE
        /\ issues[q.target].body = DEVEX_SCORECARD_TEMPLATE

\* C13: when the label-filtered listing fails during
\* createOrUpdateScorecardIssue, findExistingScorecardIssue yields null
\* without raising and the call goes on to send a create (and no update),
\* whether or not a tracked issue exists.
C13_LookupFailureCreates ==
    \A p \in Procs :
        LET q == procs[p] IN
        (q.op = "createOrUpdate" /\ q.listFailed)
        => /\ q.found = 0 /\ q.write = "create"
           /\ q.pc \in {"generate", "write", "callEnd", "responded"}
           /\ q.nUpdate = 0
           /\ (q.pc \in {"callEnd", "responded"} => q.nCreate = 1)

C13_Witness ==
    \E p \in Procs :
        LET q == procs[p] IN
        /\ q.op = "createOrUpdate" /\ q.listFailed /\ q.pc = "callEnd"
        /\ Tracked(q.pre) # {} /\ q.nCreate = 1 /\ q.outcome = "returned"

\* C12: in a deployment whose configuration carries the Azure AI endpoint and
\* deployment name, every tracker write of a create, update or rerun made for
\* a webhook request is preceded by a call of generateScorecard.
C12_GeneratorUsedWhenConfigured ==
    \A p \in Procs :
        LET q == procs[p] IN
        (q.via = "webhook" /\ config.azure /\ q.nCreate + q.nUpdate > 0)
        => q.nGen = 1

\* what a request can write of the issues: everything but the open/closed
\* state, which a user may change at any time
Content(iss) ==
    [ n \in 1..Len(iss) |->
        [ title |-> iss[n].title, labels |-> iss[n].labels,
          body |-> iss[n].body, comments |-> iss[n].comments ] ]

\* C14: when a webhook request is answered 500 (a tracker write of it has
\* failed, or it was rejected before any call), the request has created,
\* updated and commented nothing: the issues are as they were when the
\* request arrived.
C14_FailedRequestCommitsNothing ==
    \A p \in Procs :
        LET q == procs[p] IN
        (q.via = "webhook" /\ q.pc = "responded" /\ q.status = 500)
        => Content(issues) = Content(q.reqPre)

\* C15: with WEBHOOK_SECRET set, a request whose signature header is missing
\* or does not verify is answered 401 whatever its other headers are, and a
\* request with a verifying signature and no event-type header is answered
\* 400.
C15_UnauthenticatedIs401 ==
    \A p \in Procs :
        LET q == procs[p] IN
        (q.via = "webhook" /\ env.WEBHOOK_SECRET # "" /\ q.pc = "responded")
        => /\ (~q.req.authentic => q.status = 401)
           /\ (q.req.authentic /\ q.req.noEvent => q.status = 400)

\* C20: for every event type, action, issue (absent, or with a title and a
\* body), repository, installation and repositories_added, the operation
\* processWebhookEvent performs is the one the four rules give, first match
\* wins: (1) matching issue, action edited and checked control -> rerun;
\* (2) else event type repository, action created or edited and installation
\* present -> create-or-update; (3) else action added with a listed
\* repository -> create-or-update for each; (4) else nothing.
C20_RoutingIsTheFourRules ==
    (calc.fn = "processWebhookEvent")
    => LET w == calc.args[1]
           githubEvent == calc.args[2]
           expected ==
               IF /\ w.issue.present /\ Includes(w.issue.title, TitleNeedle)
                  /\ w.action = "edited" /\ Includes(w.issue.body, RerunNeedle)
               THEN "handleScorecardRerun"
               ELSE IF /\ githubEvent = "repository"
                       /\ w.action \in {"created", "edited"}
                       /\ w.installation # "none"
               THEN "createOrUpdateScorecardIssue"
               ELSE IF w.action = "added" /\ w.repositories_added > 0
               THEN "handleInstallationAddedEvent"
               ELSE "return"
       IN  (w.json = "object" /\ (w.issue.present => w.issue.hasTitle /\ w.issue.hasBody))
           => calc.out = expected

\* C18: constructing a ScoringConfigService succeeds if and only if the
\* merged configuration has greenThreshold > yellowThreshold > redThreshold,
\* defaultScore in [0,100] and every band with 0 <= min <= max <= 100;
\* otherwise it fails with an error naming the offending field; an accepted
\* configuration is the custom values over the defaults, none of them
\* clamped.
C18_EagerValidation ==
    (calc.fn = "ScoringConfigService")
    => LET customConfig == calc.args[1]
           cfg == calc.out.config
           error == calc.out.error
           orderOk == cfg.greenThreshold > cfg.yellowThreshold
                      /\ cfg.yellowThreshold > cfg.redThreshold
           defaultOk == cfg.defaultScore >= 0 /\ cfg.defaultScore <= 100
           bandOk(b) == /\ 0 <= cfg.ranges[b].min
                        /\ cfg.ranges[b].min <= cfg.ranges[b].max
                        /\ cfg.ranges[b].max <= 100
           bandsOk == \A b \in DOMAIN cfg.ranges : bandOk(b)
       IN  /\ (error = <<>>) <=> (orderOk /\ defaultOk /\ bandsOk)
           /\ DOMAIN cfg.ranges = {BandOrder[i] : i \in 1..Len(BandOrder)}
           /\ (error # <<>> =>
                 \/ /\ ~(cfg.greenThreshold > cfg.yellowThreshold)
                    /\ Head(error) = "Green threshold must be greater than yellow threshold"
                 \/ /\ ~(cfg.yellowThreshold > cfg.redThreshold)
                    /\ Head(error) = "Yellow threshold must be greater than red threshold"
                 \/ /\ ~defaultOk
                    /\ Head(error) = "Default score must be between 0 and 100"
                 \/ /\ Len(error) = 2 /\ Head(error) = "Invalid range for "
                    /\ ~bandOk(error[2]))
           /\ (customConfig # <<>> =>
                 LET c == customConfig[1] IN
                 /\ (c.greenThreshold # <<>> => cfg.greenThreshold = c.greenThreshold[1])
                 /\ (c.yellowThreshold # <<>> => cfg.yellowThreshold = c.yellowThreshold[1])
                 /\ (c.redThreshold # <<>> => cfg.redThreshold = c.redThreshold[1])
                 /\ (c.defaultScore # <<>> => cfg.defaultScore = c.defaultScore[1])
                 /\ (c.ranges # <<>> =>
                       \A b \in DOMAIN c.ranges[1] : cfg.ranges[b] = c.ranges[1][b]))

C18_Witness ==
    /\ calc.fn = "ScoringConfigService"
    /\ calc.args[1] # <<>>
    /\ calc.out.error = <<"Default score must be between 0 and 100">>
    /\ calc.out.config.defaultScore = 101

\* C19: for every accepted configuration and scores s1 <= s2,
\* getScoreColor(s1) <= getScoreColor(s2) in the order red < yellow < green;
\* green exactly for score >= greenThreshold, yellow exactly for
\* yellowThreshold <= score < greenThreshold, red otherwise.
C19_ColorIsMonotone ==
    (calc.fn = "getScoreColor")
    => LET cfg == calc.args[1]
           s1 == calc.args[2]
           s2 == calc.args[3]
           rank(c) == CASE c = "red" -> 0 [] c = "yellow" -> 1 [] c = "green" -> 2
           exact(s, c) ==
               /\ (c = "green") <=> (s >= cfg.greenThreshold)
               /\ (c = "yellow") <=> (s >= cfg.yellowThreshold /\ s < cfg.greenThreshold)
               /\ (c = "red") <=> (s < cfg.yellowThreshold)
       IN  /\ (s1 <= s2 => rank(calc.out[1]) <= rank(calc.out[2]))
           /\ exact(s1, calc.out[1]) /\ exact(s2, calc.out[2])

C19_Witness ==
    /\ calc.fn = "getScoreColor"
    /\ calc.args[1].greenThreshold = 100 /\ calc.args[1].yellowThreshold = 50
    /\ calc.args[2] = 49 /\ calc.args[3] = 100
    /\ calc.out = <<"red", "green">>

\* C16: for every response text, parseAIResponse returns a result with
\* 0 <= score <= 100, a colour, and a recommendations list of at least one
\* element, every element a non-empty string.
C16_NormalizerIsTotalAndBounded ==
    (calc.fn = "parseAIResponse")
    => /\ calc.out.score >= 0 /\ calc.out.score <= 100
       /\ calc.out.scoreFrac \in 0..9
       /\ (calc.out.score = 100 => calc.out.scoreFrac = 0)
       /\ calc.out.color \in {"red", "yellow", "green"}
       /\ Len(calc.out.recommendations) >= 1
       /\ \A i \in 1..Len(calc.out.recommendations) :
            /\ calc.out.recommendations[i] # <<>>
            /\ trim(calc.out.recommendations[i]) = calc.out.recommendations[i]

C16_Witness ==
    /\ calc.fn = "parseAIResponse"
    /\ jsonMatch(calc.args[2]) # <<>>
    /\ JSONparse(jsonMatch(calc.args[2])) # <<>>
    /\ JSONparse(jsonMatch(calc.args[2]))[1].score.t = "number"
    /\ JSONparse(jsonMatch(calc.args[2]))[1].score.n = 150
    /\ JSONparse(jsonMatch(calc.args[2]))[1].recommendations.t = "array"
    /\ JSONparse(jsonMatch(calc.args[2]))[1].recommendations.a = <<>>
    /\ calc.out.score = 100
    /\ calc.out.recommendations = <<FallbackRecommendation>>

\* C17: for every response text in which no JSON object is located, or whose
\* located span does not parse, the empty string included, parseAIResponse
\* returns the default score, the colour of the default score, the single
\* fallback recommendation, and as analysis the response text verbatim.
C17_FallbackIsVerbatim ==
    (calc.fn = "parseAIResponse"
        /\ (jsonMatch(calc.args[2]) = <<>> \/ JSONparse(jsonMatch(calc.args[2])) = <<>>))
    => /\ calc.out.score = getDefaultScore(calc.args[1])
       /\ calc.out.color = getScoreColor(calc.args[1], getDefaultScore(calc.args[1]))
       /\ calc.out.recommendations = <<FallbackRecommendation>>
       /\ calc.out.analysis = calc.args[2]

\* C21: for every accepted configuration and every score in [0,100],
\* getScoreCategory returns the category of a band whose min is the greatest
\* among the mins that are <= score.
C21_CategoryIsHighestFloor ==
    (calc.fn = "getScoreCategory")
    => LET cfg == calc.args[1]
           score == calc.args[2]
           band == CASE calc.out = "Excellent" -> "excellent"
                     [] calc.out = "Very Good" -> "veryGood"
                     [] calc.out = "Good" -> "good"
                     [] calc.out = "Moderate" -> "moderate"
                     [] calc.out = "Below Average" -> "belowAverage"
                     [] calc.out = "Poor" -> "poor"
                     [] calc.out = "Needs Improvement" -> "veryPoor"
           floors == { cfg.ranges[b].min : b \in { x \in DOMAIN cfg.ranges :
                                                     cfg.ranges[x].min <= score } }
       IN  /\ cfg.ranges[band].min \in floors
           /\ \A m \in floors : m <= cfg.ranges[band].min

\* the parsed object of a response from which parseAIResponse read one
ParsedOf(response) == JSONparse(jsonMatch(response))[1]

HasParsed(response) ==
    jsonMatch(response) # <<>> /\ JSONparse(jsonMatch(response)) # <<>>

\* C22: for every value of the parsed score the normalized score is an
\* integer: the default score when the value is not a finite number (absent,
\* null, Infinity, a string with no number in it), otherwise the integer
\* coercion of the value clamped to [0,100].
C22_ScoreIsCoercedToInteger ==
    (calc.fn = "parseAIResponse" /\ HasParsed(calc.args[2]))
    => LET v == ParsedOf(calc.args[2]).score
           default == getDefaultScore(calc.args[1])
           clamped(k) == IF k > 100 THEN 100 ELSE IF k < 0 THEN 0 ELSE k
       IN  /\ calc.out.scoreFrac = 0
           /\ (v.t \in {"absent", "null", "Infinity"} => calc.out.score = default)
           /\ (v.t = "string" /\ parseInt(v.s) = <<>> => calc.out.score = default)
           /\ (v.t = "number" /\ v.n >= 0 => calc.out.score = clamped(v.n))
           /\ (v.t = "number" /\ v.n < 0 => calc.out.score = 0)

\* C23: for every parsed object the result colour is the provided colour when
\* that is exactly 'red', 'yellow' or 'green', and otherwise getScoreColor of
\* the normalized score of the same result.
C23_ColourRule ==
    (calc.fn = "parseAIResponse" /\ HasParsed(calc.args[2]))
    => LET c == ParsedOf(calc.args[2]).color IN
       IF c.t = "string" /\ c.s \in {"red", "yellow", "green"}
       THEN calc.out.color = c.s
       ELSE calc.out.color = getScoreColor(calc.args[1], calc.out.score)

C23_Witness ==
    /\ calc.fn = "parseAIResponse" /\ HasParsed(calc.args[2])
    /\ ParsedOf(calc.args[2]).color = [t |-> "string", s |-> "red"]
    /\ ParsedOf(calc.args[2]).score.t = "number"
    /\ ParsedOf(calc.args[2]).score.n = 150
    /\ calc.out.color = "red" /\ calc.out.score = 100

\* the network calls of one createOrUpdateScorecardIssue call, in order, once
\* it has decided for the write w of a service with or without an agent
Plan(agent, w) ==
    <<"lookup">> \o (IF agent THEN <<"generate">> ELSE <<>>)
                 \o (IF w = "none" THEN <<>> ELSE <<w>>)

\* C25: the network calls of one createOrUpdateScorecardIssue call are issued
\* in the order lookup, generator (when an agent is configured), write: each
\* is issued when the one before has answered, nothing is written before the
\* lookup has answered, at most one write is issued (a create or an update),
\* and the body of the write is complete (the static template or the
\* generator's body) when the write is issued and is the body the tracker
\* stores.
C25_CallOrdering ==
    \A p \in Procs :
      LET q == procs[p] IN
      q.op = "createOrUpdate"
      => /\ Len(q.steps) <= Len(Plan(q.agent, q.write))
         /\ q.steps = SubSeq(Plan(q.agent, q.write), 1, Len(q.steps))
         /\ (q.pc = "lookup" => q.steps = <<>>)
         /\ (q.pc = "generate" => q.steps = <<"lookup">>)
         /\ q.nCreate + q.nUpdate <= 1
         /\ (q.pc = "write"
             => /\ Len(q.steps) = Len(Plan(q.agent, q.write)) - 1
                /\ IF q.gen = "ok"
                   THEN q.body \in {generateAIScorecardTemplate(r) : r \in GenResults}
                   ELSE q.body = DEVEX_SCORECARD_TEMPLATE)
         /\ (q.pc = "callEnd" /\ q.wrote # 0 => issues[q.wrote].body = q.body)

C25_Witness ==
    \E p \in Procs :
      /\ procs[p].op = "createOrUpdate" /\ procs[p].pc = "callEnd"
      /\ procs[p].agent /\ procs[p].gen = "ok" /\ procs[p].wrote # 0
      /\ procs[p].steps = <<"lookup", "generate", "update">>
      /\ issues[procs[p].wrote].body # DEVEX_SCORECARD_TEMPLATE

\* C26: no step of the reconciler (create, update or reopen, re-run) removes
\* an issue or takes an issue from open to closed, and the only state value
\* it sends to the tracker is 'open'.
C26_NeverClosesOrDeletes ==
    [][ procs' # procs
        => /\ Len(issues') >= Len(issues)
           /\ \A n \in 1..Len(issues) :
                issues[n].state = "open" => issues'[n].state = "open"
           /\ \A p \in Procs : procs'[p].updState \in {"", "open"} ]_vars

C26_Witness ==
    \E p \in Procs :
      /\ procs[p].op = "createOrUpdate" /\ procs[p].pc = "callEnd"
      /\ procs[p].force /\ procs[p].foundState = "open"
      /\ procs[p].wrote # 0 /\ procs[p].updState = "open"
      /\ issues[procs[p].wrote].state = "open"

\* the issues/edited event the tracker sends for issue number as it is in iss
EditedEvent(iss, number) ==
    [ json |-> "object", action |-> "edited",
      issue |-> [ present |-> TRUE, hasTitle |-> TRUE, title |-> iss[number].title,
                  hasBody |-> TRUE, body |-> iss[number].body ],
      repository |-> TRUE, installation |-> "id", repositories_added |-> -1 ]

\* C27: the body handleScorecardRerun writes (the static template, or the AI
\* template with the generator's analysis and recommendations in it) never
\* holds the checked re-run control, so the issues/edited event the tracker
\* sends for that update does not start another re-run.
C27_RerunDoesNotRetrigger ==
    \A p \in Procs :
      LET q == procs[p] IN
      (q.op = "rerun" /\ q.pc = "comment" /\ q.wrote # 0)
      => /\ ~Includes(issues[q.wrote].body, RerunNeedle)
         /\ ( Includes(issues[q.wrote].title, TitleNeedle)
              => processWebhookEvent(EditedEvent(issues, q.wrote), "issues")
                   # "handleScorecardRerun" )

\* C28: for every authenticated issues/edited event that makes
\* handleScorecardRerun write, the issue overwritten is the tracked issue of
\* the repository: it has the devex-scorecard label and the scorecard title
\* and is the one findExistingScorecardIssue selects. An issue that only
\* mentions 'DevEx Scorecard' in its title, or has no label, is not written.
C28_RerunOnlyTouchesTracked ==
    \A p \in Procs :
      LET q == procs[p] IN
      (q.via = "webhook" /\ q.op = "rerun" /\ q.req.authentic /\ q.wrote # 0)
      => /\ q.wrote \in Tracked(q.reqPre)
         /\ q.wrote = findExistingScorecardIssue(q.reqPre, TRUE)

\* both callers' calls have ended, each after a lookup that answered "no
\* tracked issue" and a create that succeeded
BothCreated ==
    \A p \in RaceProcs :
      /\ procs[p].pc = "callEnd" /\ procs[p].op = "createOrUpdate"
      /\ procs[p].nList = 1 /\ ~procs[p].listFailed /\ procs[p].found = 0
      /\ procs[p].pre = <<>>
      /\ procs[p].nCreate = 1 /\ procs[p].wrote # 0

\* C24: when two createOrUpdateScorecardIssue calls for a repository with no
\* tracked issue overlap so that both lookups answer before either create,
\* both calls create: each returns an issue of its own and the repository
\* holds two tracked issues. Nothing in the reconciler keeps the second lookup
\* from running while the first call is between its lookup and its create.
C24_CreationRace ==
    BothCreated
    => /\ procs["p1"].wrote # procs["p2"].wrote
       /\ {procs["p1"].wrote, procs["p2"].wrote} \subseteq Tracked(issues)
       /\ Cardinality(Tracked(issues)) = 2

C24_Witness ==
    /\ BothCreated
    /\ Cardinality(Tracked(issues)) = 2

\* the repository an entry of repositories_added names
ListedRepo(entry) ==
    CHOOSE k \in RepoKeys : entry.full_name = k.owner \o <<"/", k.repo>>

C30_ConfigIsImmutable ==
    \A i \in 1..Len(calc.services) :
      LET now == Deref(calc, calc.services[i])
          born == calc.services[i].born
      IN  /\ getDefaultScore(now) = getDefaultScore(born)
          /\ \A score \in Scores :
               /\ getScoreColor(now, score) = getScoreColor(born, score)
               /\ getScoreCategory(now, score) = getScoreCategory(born, score)

====
